---- MODULE Spec2Model ----
(***************************************************************************)
(* Graph assembly of the 1-D ResNet (v1, v2) and VGG19 builders of         *)
(* keras_applications: resnet_1d_common.py and vgg19_1d.py.                *)
(*                                                                         *)
(* A build is a sequence of layer constructions against a layer factory    *)
(* (the backend/layers/models/utils modules).  The model records every     *)
(* layer a build creates (its name, operation, arguments, input tensors,   *)
(* output shape and the factory that created it) and every residual block  *)
(* call.  Shapes are channels_last and exclude the batch axis:             *)
(* <<length, channels>> for a sequence tensor, <<features>> for a vector.  *)
(***************************************************************************)
EXTENDS Integers, Sequences, FiniteSets, TLC

VARIABLES
    pc,      \* pc[b]: where caller b's build stands
    cfg,     \* cfg[b]: the arguments of caller b's build
    graph,   \* graph[b]: the layers the build has created, in creation order
    calls,   \* calls[b]: the residual block calls of the build, in call order
    x,       \* x[b]: the build's running tensor
    stage,   \* stage[b]: how many stacks (VGG19: convolution blocks) are built
    err,     \* err[b]: the exception that ended the build, "" if none
    glob,    \* the module globals backend, layers, models, utils of resnet_1d_common
    uid,     \* uid[f][prefix]: factory f's counter for generated layer names
    prev,    \* prev[b]: the graph of caller b's previous finished build
    builds   \* builds[b]: how many builds caller b has started

vars == <<pc, cfg, graph, calls, x, stage, err, glob, uid, prev, builds>>

(* ------------------------------ bounds --------------------------------- *)

\* how many times one caller builds the same configuration in one process
MaxBuilds == 2

\* the deepest stack of a caller's own stack_fn
MaxDepth == 3

(* ----------------------------- constants ------------------------------- *)

\* a dimension whose size is not known when the graph is built (None)
NoneDim == 0

\* min_size handed to _obtain_input_shape_1d
MinSize == 32

\* the module global before any build has bound it (backend = None)
NoFactory == 0

Builders == {1, 2}

\* the layer factory (backend, layers, models, utils) a caller passes in kwargs
Factory(b) == b

Factories == {Factory(b) : b \in Builders}

\* the prefixes of the names the factory generates for layers built without a name
Prefixes == {"input", "max_pooling1d", "global_average_pooling1d", "global_max_pooling1d"}

ResNetPresets == {"resnet18", "resnet34", "resnet50", "resnet101", "resnet152",
                  "resnet50v2", "resnet101v2", "resnet152v2"}

Presets == ResNetPresets \cup {"vgg19"}

(* ------------------------- shapes of the layers ------------------------ *)

\* output length of a convolution or pooling window over a length L
ConvLen(L, k, s, pad) ==
    IF L = NoneDim THEN NoneDim
    ELSE IF pad = "same" THEN (L + s - 1) \div s
    ELSE IF L < k THEN -1
    ELSE ((L - k) \div s) + 1

\* padding on one side only
PadLen_oneside(L, p) == IF L = NoneDim THEN NoneDim ELSE L + p

\* output length of ZeroPadding1D(padding = p)
PadLen(L, p) == IF L = NoneDim THEN NoneDim ELSE L + 2 * p

\* one axis of the element-wise merge of two shapes; -1 when they cannot be merged
MergeDim(i, j) ==
    IF i = NoneDim \/ j = NoneDim THEN NoneDim
    ELSE IF i = 1 THEN j
    ELSE IF j = 1 THEN i
    ELSE IF i = j THEN i
    ELSE -1

(* ------------------------- the build context --------------------------- *)

\* a layer with the factory's default arguments
Layer == [name |-> "", op |-> "", fac |-> NoFactory, blk |-> 0, ins |-> <<>>,
          shape |-> <<>>, auto |-> FALSE, k |-> 0, s |-> 0, pad |-> "",
          bias |-> TRUE, init |-> "", act |-> ""]

\* a tensor: the layer of the graph whose output it is (0: the caller's), its shape
Tensor(id, shape) == [id |-> id, shape |-> shape]

\* the local variables x, shortcut and preact of the running function
Locals(t) == [x |-> t, shortcut |-> t, preact |-> t]

\* an exception raised while a layer is built: nothing after it runs
Fail(c, e) == IF ~c.ok THEN c ELSE [c EXCEPT !.ok = FALSE, !.err = e]

\* dst = <layer l>(...): the layer is created through the factory c.f and
\* appended to the graph, and its output is bound to the local dst
Emit(c, dst, l) ==
    IF ~c.ok THEN c
    ELSE [c EXCEPT !.g = Append(@, [l EXCEPT !.fac = c.f, !.blk = c.cur]),
                   !.v[dst] = Tensor(Len(c.g) + 1, l.shape)]

\* a layer created without a name gets <prefix>_<uid>, uid counted per factory
EmitAuto(c, dst, l, prefix) ==
    IF ~c.ok THEN c
    ELSE Emit([c EXCEPT !.uid[prefix] = @ + 1], dst,
              [l EXCEPT !.name = prefix \o "_" \o ToString(c.uid[prefix] + 1),
                        !.auto = TRUE])

\* dst = src
Assign(c, src, dst) == IF ~c.ok THEN c ELSE [c EXCEPT !.v[dst] = c.v[src]]

\* dst = layers.Conv1D(filters, kernel_size, strides=, padding=, ...)(src)
Conv1D(c, src, dst, filters, kernel_size, strides, padding, use_bias, kernel_initializer, activation, name) ==
    IF ~c.ok THEN c
    ELSE IF ConvLen(c.v[src].shape[1], kernel_size, strides, padding) < 0
         THEN Fail(c, "ValueError")
    ELSE Emit(c, dst,
              [Layer EXCEPT !.name = name, !.op = "Conv1D", !.ins = <<c.v[src].id>>,
                            !.shape = <<ConvLen(c.v[src].shape[1], kernel_size, strides,
                                                padding), filters>>,
                            !.k = kernel_size, !.s = strides, !.pad = padding,
                            !.bias = use_bias, !.init = kernel_initializer,
                            !.act = activation])

BatchNormalization(c, src, dst, name) ==
    IF ~c.ok THEN c
    ELSE Emit(c, dst, [Layer EXCEPT !.name = name, !.op = "BatchNormalization",
                                    !.ins = <<c.v[src].id>>, !.shape = c.v[src].shape])

Activation(c, src, dst, activation, name) ==
    IF ~c.ok THEN c
    ELSE Emit(c, dst, [Layer EXCEPT !.name = name, !.op = "Activation",
                                    !.ins = <<c.v[src].id>>, !.shape = c.v[src].shape,
                                    !.act = activation])

ZeroPadding1D(c, src, dst, padding, name) ==
    IF ~c.ok THEN c
    ELSE Emit(c, dst, [Layer EXCEPT !.name = name, !.op = "ZeroPadding1D",
                                    !.ins = <<c.v[src].id>>,
                                    !.shape = <<PadLen(c.v[src].shape[1], padding),
                                                c.v[src].shape[2]>>,
                                    !.k = padding])

MaxPoolLayer(t, pool_size, strides) ==
    [Layer EXCEPT !.op = "MaxPooling1D", !.ins = <<t.id>>,
                  !.shape = <<ConvLen(t.shape[1], pool_size, strides, "valid"), t.shape[2]>>,
                  !.k = pool_size, !.s = strides, !.pad = "valid"]

MaxPooling1D(c, src, dst, pool_size, strides, name) ==
    IF ~c.ok THEN c
    ELSE IF ConvLen(c.v[src].shape[1], pool_size, strides, "valid") < 0
         THEN Fail(c, "ValueError")
    ELSE Emit(c, dst, [MaxPoolLayer(c.v[src], pool_size, strides) EXCEPT !.name = name])

\* MaxPooling1D(...) built without a name
MaxPooling1DUnnamed(c, src, dst, pool_size, strides) ==
    IF ~c.ok THEN c
    ELSE IF ConvLen(c.v[src].shape[1], pool_size, strides, "valid") < 0
         THEN Fail(c, "ValueError")
    ELSE EmitAuto(c, dst, MaxPoolLayer(c.v[src], pool_size, strides), "max_pooling1d")

GlobalPoolLayer(t, op) == [Layer EXCEPT !.op = op, !.ins = <<t.id>>, !.shape = <<t.shape[2]>>]

GlobalAveragePooling1D(c, src, dst, name) ==
    IF ~c.ok THEN c
    ELSE Emit(c, dst, [GlobalPoolLayer(c.v[src], "GlobalAveragePooling1D")
                         EXCEPT !.name = name])

GlobalMaxPooling1D(c, src, dst, name) ==
    IF ~c.ok THEN c
    ELSE Emit(c, dst, [GlobalPoolLayer(c.v[src], "GlobalMaxPooling1D") EXCEPT !.name = name])

Flatten(c, src, dst, name) ==
    IF ~c.ok THEN c
    ELSE Emit(c, dst, [Layer EXCEPT !.name = name, !.op = "Flatten",
                         !.ins = <<c.v[src].id>>,
                         !.shape = <<IF c.v[src].shape[1] = NoneDim THEN NoneDim
                                     ELSE c.v[src].shape[1] * c.v[src].shape[2]>>])

\* Dense needs the size of its input's last axis
Dense(c, src, dst, units, activation, name) ==
    IF ~c.ok THEN c
    ELSE IF c.v[src].shape[Len(c.v[src].shape)] = NoneDim THEN Fail(c, "ValueError")
    ELSE Emit(c, dst, [Layer EXCEPT !.name = name, !.op = "Dense", !.ins = <<c.v[src].id>>,
                                    !.shape = <<units>>, !.act = activation])

\* the two branches that reach the addition of the running block are noted in
\* the block's record
NoteAdd(c, a, b) ==
    IF c.cur = 0 THEN c
    ELSE [c EXCEPT !.blocks[c.cur].short = a.shape,
                   !.blocks[c.cur].main = b.shape,
                   !.blocks[c.cur].added = /\ MergeDim(a.shape[1], b.shape[1]) >= 0
                                           /\ MergeDim(a.shape[2], b.shape[2]) >= 0]

\* dst = layers.Add(name)([a, b]): the two shapes must merge axis by axis
Add(c, a, b, dst, name) ==
    IF ~c.ok THEN c
    ELSE IF \/ MergeDim(c.v[a].shape[1], c.v[b].shape[1]) < 0
            \/ MergeDim(c.v[a].shape[2], c.v[b].shape[2]) < 0
         THEN Fail(NoteAdd(c, c.v[a], c.v[b]), "ShapeMismatch")
    ELSE Emit(NoteAdd(c, c.v[a], c.v[b]), dst,
              [Layer EXCEPT !.name = name, !.op = "Add",
                            !.ins = <<c.v[a].id, c.v[b].id>>,
                            !.shape = <<MergeDim(c.v[a].shape[1], c.v[b].shape[1]),
                                        MergeDim(c.v[a].shape[2], c.v[b].shape[2])>>])

\* the record of one residual block call, kept beside the graph
BeginBlock(c, fn, filters, stride, conv_shortcut, kernel_initializer, name) ==
    IF ~c.ok THEN c
    ELSE [c EXCEPT !.blocks = Append(@, [name |-> name, stk |-> c.stk, pos |-> c.pos + 1,
                                          fn |-> fn, filters |-> filters,
                                          stride |-> stride, conv |-> conv_shortcut,
                                          init |-> kernel_initializer, inp |-> c.v.x.shape,
                                          short |-> <<>>, main |-> <<>>, added |-> FALSE,
                                          out |-> Tensor(0, <<>>)]),
                   !.cur = Len(c.blocks) + 1,
                   !.pos = c.pos + 1]

\* return x: the tensor the block returns is noted in the block's record
EndBlock(c) ==
    IF ~c.ok \/ c.cur = 0 THEN [c EXCEPT !.cur = 0]
    ELSE [c EXCEPT !.blocks[c.cur].out = c.v.x, !.cur = 0]

\* a stack call starts: the blocks that follow belong to the stack called `name`
BeginStack(c, name) == [c EXCEPT !.stk = name, !.pos = 0]

(* --------------------------- residual blocks --------------------------- *)

\* a bottleneck that widens by 2
Expand_by2(filters) == 2 * filters

\* 4 * filters: the width of a bottleneck block's projection and last convolution
Expand(filters) == 4 * filters

block0(c, filters, kernel_size, stride, conv_shortcut, kernel_initializer, name) ==
    LET b0 == BeginBlock(c, 0, filters, stride, conv_shortcut, kernel_initializer, name)
        s1 == IF conv_shortcut
              THEN BatchNormalization(
                       Conv1D(b0, "x", "shortcut", filters, 1, stride, "same", TRUE,
                              kernel_initializer, "", name \o "_0_conv"),
                       "shortcut", "shortcut", name \o "_0_bn")
              ELSE Assign(b0, "x", "shortcut")
        m1 == Conv1D(s1, "x", "x", filters, kernel_size, stride, "same", TRUE,
                     kernel_initializer, "", name \o "_1_conv")
        m2 == BatchNormalization(m1, "x", "x", name \o "_1_bn")
        m3 == Activation(m2, "x", "x", "relu", name \o "_1_relu")
        m4 == Conv1D(m3, "x", "x", filters, kernel_size, 1, "same", TRUE,
                     kernel_initializer, "", name \o "_2_conv")
        m5 == BatchNormalization(m4, "x", "x", name \o "_2_bn")
        a  == Add(m5, "shortcut", "x", "x", name \o "_add")
    IN  EndBlock(Activation(a, "x", "x", "relu", name \o "_out"))

block1(c, filters, kernel_size, stride, kernel_initializer, conv_shortcut, name) ==
    LET b0 == BeginBlock(c, 1, filters, stride, conv_shortcut, kernel_initializer, name)
        s1 == IF conv_shortcut
              THEN BatchNormalization(
                       Conv1D(b0, "x", "shortcut", Expand(filters), 1, stride, "valid", TRUE,
                              kernel_initializer, "", name \o "_0_conv"),
                       "shortcut", "shortcut", name \o "_0_bn")
              ELSE Assign(b0, "x", "shortcut")
        m1 == Conv1D(s1, "x", "x", filters, 1, stride, "valid", TRUE, kernel_initializer, "",
                     name \o "_1_conv")
        m2 == BatchNormalization(m1, "x", "x", name \o "_1_bn")
        m3 == Activation(m2, "x", "x", "relu", name \o "_1_relu")
        m4 == Conv1D(m3, "x", "x", filters, kernel_size, 1, "same", TRUE,
                     kernel_initializer, "", name \o "_2_conv")
        m5 == BatchNormalization(m4, "x", "x", name \o "_2_bn")
        m6 == Activation(m5, "x", "x", "relu", name \o "_2_relu")
        m7 == Conv1D(m6, "x", "x", Expand(filters), 1, 1, "valid", TRUE, kernel_initializer,
                     "", name \o "_3_conv")
        m8 == BatchNormalization(m7, "x", "x", name \o "_3_bn")
        a  == Add(m8, "shortcut", "x", "x", name \o "_add")
    IN  EndBlock(Activation(a, "x", "x", "relu", name \o "_out"))

\* a pre-activation block whose projection shortcut takes the raw input
block2_rawproj(c, filters, kernel_size, stride, kernel_initializer, conv_shortcut, name) ==
    LET b0 == BeginBlock(c, 2, filters, stride, conv_shortcut, kernel_initializer, name)
        p1 == BatchNormalization(b0, "x", "preact", name \o "_preact_bn")
        p2 == Activation(p1, "preact", "preact", "relu", name \o "_preact_relu")
        s1 == IF conv_shortcut
              THEN Conv1D(p2, "x", "shortcut", Expand(filters), 1, stride, "valid", TRUE,
                          kernel_initializer, "", name \o "_0_conv")
              ELSE IF stride > 1 THEN MaxPooling1DUnnamed(p2, "x", "shortcut", 1, stride)
              ELSE Assign(p2, "x", "shortcut")
        m1 == Conv1D(s1, "preact", "x", filters, 1, 1, "valid", FALSE, kernel_initializer, "",
                     name \o "_1_conv")
        m2 == BatchNormalization(m1, "x", "x", name \o "_1_bn")
        m3 == Activation(m2, "x", "x", "relu", name \o "_1_relu")
        m4 == ZeroPadding1D(m3, "x", "x", 0, name \o "_2_pad")
        m5 == Conv1D(m4, "x", "x", filters, kernel_size, stride, "valid", FALSE,
                     kernel_initializer, "", name \o "_2_conv")
        m6 == BatchNormalization(m5, "x", "x", name \o "_2_bn")
        m7 == Activation(m6, "x", "x", "relu", name \o "_2_relu")
        m8 == Conv1D(m7, "x", "x", Expand(filters), 1, 1, "valid", TRUE, kernel_initializer,
                     "", name \o "_3_conv")
    IN  EndBlock(Add(m8, "shortcut", "x", "x", name \o "_out"))

block2(c, filters, kernel_size, stride, kernel_initializer, conv_shortcut, name) ==
    LET b0 == BeginBlock(c, 2, filters, stride, conv_shortcut, kernel_initializer, name)
        p1 == BatchNormalization(b0, "x", "preact", name \o "_preact_bn")
        p2 == Activation(p1, "preact", "preact", "relu", name \o "_preact_relu")
        s1 == IF conv_shortcut
              THEN Conv1D(p2, "preact", "shortcut", Expand(filters), 1, stride, "valid", TRUE,
                          kernel_initializer, "", name \o "_0_conv")
              ELSE IF stride > 1 THEN MaxPooling1DUnnamed(p2, "x", "shortcut", 1, stride)
              ELSE Assign(p2, "x", "shortcut")
        m1 == Conv1D(s1, "preact", "x", filters, 1, 1, "valid", FALSE, kernel_initializer, "",
                     name \o "_1_conv")
        m2 == BatchNormalization(m1, "x", "x", name \o "_1_bn")
        m3 == Activation(m2, "x", "x", "relu", name \o "_1_relu")
        m4 == ZeroPadding1D(m3, "x", "x", 0, name \o "_2_pad")
        m5 == Conv1D(m4, "x", "x", filters, kernel_size, stride, "valid", FALSE,
                     kernel_initializer, "", name \o "_2_conv")
        m6 == BatchNormalization(m5, "x", "x", name \o "_2_bn")
        m7 == Activation(m6, "x", "x", "relu", name \o "_2_relu")
        m8 == Conv1D(m7, "x", "x", Expand(filters), 1, 1, "valid", TRUE, kernel_initializer,
                     "", name \o "_3_conv")
    IN  EndBlock(Add(m8, "shortcut", "x", "x", name \o "_out"))

(* ------------------------------- stacks -------------------------------- *)

\* for i in range(i, blocks + 1): block0(x, filters, conv_shortcut=False, ...)
RECURSIVE stack0_loop(_, _, _, _, _, _)
stack0_loop(c, filters, i, blocks, kernel_initializer, name) ==
    IF i > blocks \/ ~c.ok THEN c
    ELSE stack0_loop(block0(c, filters, 3, 1, FALSE, kernel_initializer,
                            name \o "_block" \o ToString(i)),
                     filters, i + 1, blocks, kernel_initializer, name)

\* a stack whose first block keeps the identity shortcut
stack0_noproj(c, filters, blocks, stride1, kernel_initializer, name) ==
    stack0_loop(block0(BeginStack(c, name), filters, 3, stride1, FALSE, kernel_initializer,
                       name \o "_block1"),
                filters, 2, blocks, kernel_initializer, name)

stack0(c, filters, blocks, stride1, kernel_initializer, name) ==
    stack0_loop(block0(BeginStack(c, name), filters, 3, stride1, TRUE, kernel_initializer,
                       name \o "_block1"),
                filters, 2, blocks, kernel_initializer, name)

\* for i in range(i, blocks + 1): block1(x, filters, conv_shortcut=False, ...)
RECURSIVE stack1_loop(_, _, _, _, _, _)
stack1_loop(c, filters, i, blocks, kernel_initializer, name) ==
    IF i > blocks \/ ~c.ok THEN c
    ELSE stack1_loop(block1(c, filters, 3, 1, kernel_initializer, FALSE,
                            name \o "_block" \o ToString(i)),
                     filters, i + 1, blocks, kernel_initializer, name)

\* a bottleneck stack whose first block keeps the identity shortcut
stack1_noproj(c, filters, blocks, stride1, kernel_initializer, name) ==
    stack1_loop(block1(BeginStack(c, name), filters, 3, stride1, kernel_initializer, FALSE,
                       name \o "_block1"),
                filters, 2, blocks, kernel_initializer, name)

\* a stack that makes one block fewer than `blocks`
stack1_short(c, filters, blocks, stride1, kernel_initializer, name) ==
    stack1_loop(block1(BeginStack(c, name), filters, 3, stride1, kernel_initializer, TRUE,
                       name \o "_block1"),
                filters, 3, blocks, kernel_initializer, name)

stack1(c, filters, blocks, stride1, kernel_initializer, name) ==
    stack1_loop(block1(BeginStack(c, name), filters, 3, stride1, kernel_initializer, TRUE,
                       name \o "_block1"),
                filters, 2, blocks, kernel_initializer, name)

\* for i in range(i, blocks): block2(x, filters, name=...): every other argument
\* is block2's default (stride 1, "he_uniform", no projection)
RECURSIVE stack2_loop(_, _, _, _, _)
stack2_loop(c, filters, i, blocks, name) ==
    IF i >= blocks \/ ~c.ok THEN c
    ELSE stack2_loop(block2(c, filters, 3, 1, "he_uniform", FALSE,
                            name \o "_block" \o ToString(i)),
                     filters, i + 1, blocks, name)

\* a stack whose stride is on its first block
stack2_stridefirst(c, filters, blocks, stride1, kernel_initializer, name) ==
    block2(stack2_loop(block2(BeginStack(c, name), filters, 3, stride1, kernel_initializer,
                              TRUE, name \o "_block1"),
                       filters, 2, blocks, name),
           filters, 3, 1, kernel_initializer, FALSE,
           name \o "_block" \o ToString(blocks))

\* a stack whose projection shortcut is on its last block
stack2_projlast(c, filters, blocks, stride1, kernel_initializer, name) ==
    block2(stack2_loop(block2(BeginStack(c, name), filters, 3, 1, kernel_initializer, FALSE,
                              name \o "_block1"),
                       filters, 2, blocks, name),
           filters, 3, stride1, kernel_initializer, TRUE,
           name \o "_block" \o ToString(blocks))

stack2(c, filters, blocks, stride1, kernel_initializer, name) ==
    block2(stack2_loop(block2(BeginStack(c, name), filters, 3, 1, kernel_initializer, TRUE,
                              name \o "_block1"),
                       filters, 2, blocks, name),
           filters, 3, stride1, kernel_initializer, FALSE,
           name \o "_block" \o ToString(blocks))

(* ------------------------------- presets ------------------------------- *)

Stk(fn, filters, nblocks, stride1, name) ==
    [fn |-> fn, filters |-> filters, blocks |-> nblocks, stride1 |-> stride1, name |-> name]

\* the stack_fn of each preset: the stack calls it makes, in order
\* (stride1 = 2 is the stacks' default)
StackFn(preset) ==
    CASE preset = "resnet18" ->
           <<Stk(0, 64, 2, 1, "conv2"), Stk(0, 128, 2, 2, "conv3"),
             Stk(0, 256, 2, 2, "conv4"), Stk(0, 512, 2, 2, "conv5")>>
      [] preset = "resnet34" ->
           <<Stk(0, 64, 3, 1, "conv2"), Stk(0, 128, 4, 2, "conv3"),
             Stk(0, 256, 6, 2, "conv4"), Stk(0, 512, 3, 2, "conv5")>>
      [] preset = "resnet50" ->
           <<Stk(1, 64, 3, 1, "conv2"), Stk(1, 128, 4, 2, "conv3"),
             Stk(1, 256, 6, 2, "conv4"), Stk(1, 512, 3, 2, "conv5")>>
      [] preset = "resnet101" ->
           <<Stk(1, 64, 3, 1, "conv2"), Stk(1, 128, 4, 2, "conv3"),
             Stk(1, 256, 23, 2, "conv4"), Stk(1, 512, 3, 2, "conv5")>>
      [] preset = "resnet152" ->
           <<Stk(1, 64, 3, 1, "conv2"), Stk(1, 128, 8, 2, "conv3"),
             Stk(1, 256, 36, 2, "conv4"), Stk(1, 512, 3, 2, "conv5")>>
      [] preset = "resnet50v2" ->
           <<Stk(2, 64, 3, 2, "conv2"), Stk(2, 128, 4, 2, "conv3"),
             Stk(2, 256, 6, 2, "conv4"), Stk(2, 512, 3, 1, "conv5")>>
      [] preset = "resnet101v2" ->
           <<Stk(2, 64, 3, 2, "conv2"), Stk(2, 128, 4, 2, "conv3"),
             Stk(2, 256, 23, 2, "conv4"), Stk(2, 512, 3, 1, "conv5")>>
      [] preset = "resnet152v2" ->
           <<Stk(2, 64, 3, 2, "conv2"), Stk(2, 128, 8, 2, "conv3"),
             Stk(2, 256, 36, 2, "conv4"), Stk(2, 512, 3, 1, "conv5")>>
      [] OTHER -> <<>>

\* the `preact` argument each preset hands to ResNet
Preact(preset) == preset \in {"resnet50v2", "resnet101v2", "resnet152v2"}

\* the `use_bias` argument each preset hands to ResNet
UseBias(preset) == TRUE

\* one stack call of a stack_fn
ApplyStack(c, st, kernel_initializer) ==
    CASE st.fn = 0 -> stack0(c, st.filters, st.blocks, st.stride1, kernel_initializer, st.name)
      [] st.fn = 1 -> stack1(c, st.filters, st.blocks, st.stride1, kernel_initializer, st.name)
      [] st.fn = 2 -> stack2(c, st.filters, st.blocks, st.stride1, kernel_initializer, st.name)

\* the five convolution blocks of VGG19: <<filters, number of convolutions>>
VGGBlocks == <<<<64, 2>>, <<128, 2>>, <<256, 4>>, <<512, 4>>, <<512, 4>>>>

RECURSIVE VGGConvs(_, _, _, _, _)
VGGConvs(c, filters, j, n, name) ==
    IF j > n \/ ~c.ok THEN c
    ELSE VGGConvs(Conv1D(c, "x", "x", filters, 3, 1, "same", TRUE, "glorot_uniform", "relu",
                         name \o "_conv" \o ToString(j)),
                  filters, j + 1, n, name)

\* block i of VGG19: its convolutions, then MaxPooling1D(2, strides=2)
VGGBlock(c, i) ==
    MaxPooling1D(VGGConvs(c, VGGBlocks[i][1], 1, VGGBlocks[i][2], "block" \o ToString(i)),
                 "x", "x", 2, 2, "block" \o ToString(i) \o "_pool")

(* ---------------------------- the arguments ---------------------------- *)

\* os.path.exists(weights)
PathExists(weights) == weights = "exists"

\* a build that does not look at `weights` before it starts the graph
WeightsOK_unchecked(weights) == TRUE

\* not (weights is None or os.path.exists(weights)) raises
WeightsOK(weights) == weights = "None" \/ PathExists(weights)

\* _obtain_input_shape_1d(input_shape, min_size, data_format): the shape is
\* accepted when its length reaches min_size
ObtainInputShape1d(shape, min_size) == shape[1] >= min_size

\* the shape of the tensor the caller passes as input_tensor: a symbolic tensor
\* of unknown length ("keras"), or backend data of the stated shape ("raw")
InputTensorShape(a) ==
    IF a.tensor = "keras" THEN <<NoneDim, 3>> ELSE <<a.shape_len, 3>>

\* the arguments a build may be called with
Args == [preset : Presets, include_top : BOOLEAN, weights : {"None", "exists", "missing"},
         tensor : {"none", "keras", "raw"}, shape_len : {MinSize - 1, MinSize, 64},
         pooling : {"None", "avg", "max", "sum"}, classes : {10},
         kinit : {"he_uniform", "glorot_uniform"}]

\* VGG19 takes no kernel_initializer; an input_tensor comes with one input_shape
Configs ==
    {a \in Args : /\ (a.preset = "vgg19" => a.kinit = "he_uniform")
                  /\ (a.tensor # "none" => a.shape_len = 64)}

\* the arguments of ResNet(stack_fn, preact=False, use_bias=True, ...) called
\* with the caller's own stack_fn: one stack call of any variant, depth and stride
CustomConfigs ==
    {[preset |-> "custom", include_top |-> FALSE, weights |-> w, tensor |-> t,
      shape_len |-> 64, pooling |-> "avg", classes |-> 10, kinit |-> ki,
      plan |-> <<Stk(fn, 64, d, s, "conv2")>>] :
        w \in {"None", "exists"}, t \in {"none", "keras"},
        ki \in {"he_uniform", "glorot_uniform"},
        fn \in 0..2, d \in 1..MaxDepth, s \in 1..2}

\* the stack calls of the stack_fn a build was given
Plan(a) == IF a.preset = "custom" THEN a.plan ELSE StackFn(a.preset)

\* the configurations of two callers that build at the same time
ConcConfigs ==
    {a \in Configs : /\ a.preset \in {"resnet18", "vgg19"}
                     /\ a.tensor = "none" /\ a.shape_len = 64
                     /\ a.pooling = "avg" /\ a.kinit = "he_uniform"
                     /\ a.weights # "missing"
                     /\ (a.weights = "exists" <=> a.include_top)}

(* ------------------------------ the build ------------------------------ *)

IsVGG(b) == cfg[b].preset = "vgg19"

\* the factory the next statement of b's build sees: VGG19 binds it to locals,
\* ResNet reads the module globals
Layers(b) == IF IsVGG(b) THEN Factory(b) ELSE glob

\* the context a step of b's build runs in
Ctx(b) ==
    [g |-> graph[b], blocks |-> calls[b], uid |-> uid[Layers(b)], f |-> Layers(b),
     v |-> Locals(x[b]), ok |-> TRUE, err |-> "", cur |-> 0, stk |-> "", pos |-> 0]

\* the step ends: its layers are in the graph; an exception ends the build
Commit(b, c, next) ==
    /\ graph' = [graph EXCEPT ![b] = c.g]
    /\ calls' = [calls EXCEPT ![b] = c.blocks]
    /\ uid' = [uid EXCEPT ![c.f] = c.uid]
    /\ x' = [x EXCEPT ![b] = c.v.x]
    /\ pc' = [pc EXCEPT ![b] = IF c.ok THEN next ELSE "failed"]
    /\ err' = [err EXCEPT ![b] = c.err]

\* backend, layers, models, utils = get_submodules_from_kwargs(kwargs):
\* ResNet assigns the module globals, VGG19 its locals
GetSubmodules(b) ==
    /\ pc[b] = "start"
    /\ glob' = IF IsVGG(b) THEN glob ELSE Factory(b)
    /\ pc' = [pc EXCEPT ![b] = "weights"]
    /\ UNCHANGED <<cfg, graph, calls, x, stage, err, uid, prev, builds>>

CheckWeights(b) ==
    /\ pc[b] = "weights"
    /\ IF WeightsOK(cfg[b].weights)
       THEN /\ pc' = [pc EXCEPT ![b] = "shape"]
            /\ err' = err
       ELSE /\ pc' = [pc EXCEPT ![b] = "failed"]
            /\ err' = [err EXCEPT ![b] = "InvalidWeightsArgument"]
    /\ UNCHANGED <<cfg, graph, calls, x, stage, glob, uid, prev, builds>>

ObtainInputShape(b) ==
    /\ pc[b] = "shape"
    /\ IF ObtainInputShape1d(<<cfg[b].shape_len, 3>>, MinSize)
       THEN /\ pc' = [pc EXCEPT ![b] = "input"]
            /\ err' = err
       ELSE /\ pc' = [pc EXCEPT ![b] = "failed"]
            /\ err' = [err EXCEPT ![b] = "InvalidInputShape"]
    /\ UNCHANGED <<cfg, graph, calls, x, stage, glob, uid, prev, builds>>

\* img_input: a new Input layer, an Input layer around the caller's data, or
\* the caller's symbolic tensor itself
MakeInput(b) ==
    /\ pc[b] = "input"
    /\ Commit(b,
              IF cfg[b].tensor = "keras"
              THEN [Ctx(b) EXCEPT !.v = Locals(Tensor(0, InputTensorShape(cfg[b])))]
              ELSE EmitAuto(Ctx(b), "x",
                            [Layer EXCEPT !.op = "Input",
                                          !.shape = <<cfg[b].shape_len, 3>>,
                                          !.ins = IF cfg[b].tensor = "raw" THEN <<0>>
                                                  ELSE <<>>],
                            "input"),
              IF IsVGG(b) THEN "vgg" ELSE "stem")
    /\ UNCHANGED <<cfg, stage, glob, prev, builds>>

\* conv1_pad .. pool1_pool
ResNetStem(c, preact, use_bias, kernel_initializer) ==
    LET c1 == ZeroPadding1D(c, "x", "x", 3, "conv1_pad")
        c2 == Conv1D(c1, "x", "x", 64, 7, 2, "valid", use_bias, kernel_initializer, "",
                     "conv1_conv")
        c3 == IF ~preact
              THEN Activation(BatchNormalization(c2, "x", "x", "conv1_bn"),
                              "x", "x", "relu", "conv1_relu")
              ELSE c2
        c4 == ZeroPadding1D(c3, "x", "x", 1, "pool1_pad")
    IN  MaxPooling1D(c4, "x", "x", 3, 2, "pool1_pool")

Stem(b) ==
    /\ pc[b] = "stem"
    /\ Commit(b, ResNetStem(Ctx(b), Preact(cfg[b].preset), UseBias(cfg[b].preset),
                            cfg[b].kinit),
              "stack")
    /\ UNCHANGED <<cfg, stage, glob, prev, builds>>

\* x = stack_fn(x): one stack call of the preset's stack_fn
Stack(b) ==
    /\ pc[b] = "stack"
    /\ Commit(b, ApplyStack(Ctx(b), Plan(cfg[b])[stage[b] + 1], cfg[b].kinit),
              IF stage[b] + 1 = Len(Plan(cfg[b])) THEN "head" ELSE "stack")
    /\ stage' = [stage EXCEPT ![b] = IF pc'[b] = "failed" THEN @ ELSE @ + 1]
    /\ UNCHANGED <<cfg, glob, prev, builds>>

\* post_bn and post_relu of a pre-activation network
ResNetPost(c, preact) ==
    IF preact
    THEN Activation(BatchNormalization(c, "x", "x", "post_bn"), "x", "x", "relu", "post_relu")
    ELSE c

\* a head whose pooling follows `pooling` under the classifier too
ResNetHead_pooled(c, include_top, pooling, classes) ==
    IF include_top
    THEN Dense(IF pooling = "max" THEN GlobalMaxPooling1D(c, "x", "x", "max_pool")
               ELSE GlobalAveragePooling1D(c, "x", "x", "avg_pool"),
               "x", "x", classes, "softmax", "probs")
    ELSE IF pooling = "avg" THEN GlobalAveragePooling1D(c, "x", "x", "avg_pool")
    ELSE IF pooling = "max" THEN GlobalMaxPooling1D(c, "x", "x", "max_pool")
    ELSE c

\* the head of ResNet: avg_pool and probs, or the pooling asked for
ResNetHead(c, include_top, pooling, classes) ==
    IF include_top
    THEN Dense(GlobalAveragePooling1D(c, "x", "x", "avg_pool"), "x", "x", classes, "softmax",
               "probs")
    ELSE IF pooling = "avg" THEN GlobalAveragePooling1D(c, "x", "x", "avg_pool")
    ELSE IF pooling = "max" THEN GlobalMaxPooling1D(c, "x", "x", "max_pool")
    ELSE c

Top(b) ==
    /\ pc[b] = "head"
    /\ Commit(b, ResNetHead(ResNetPost(Ctx(b), Preact(cfg[b].preset)),
                            cfg[b].include_top, cfg[b].pooling, cfg[b].classes),
              "model")
    /\ UNCHANGED <<cfg, stage, glob, prev, builds>>

\* VGG19: one of the five convolution blocks
VGGBody(b) ==
    /\ pc[b] = "vgg"
    /\ Commit(b, VGGBlock(Ctx(b), stage[b] + 1),
              IF stage[b] + 1 = Len(VGGBlocks) THEN "vgghead" ELSE "vgg")
    /\ stage' = [stage EXCEPT ![b] = IF pc'[b] = "failed" THEN @ ELSE @ + 1]
    /\ UNCHANGED <<cfg, glob, prev, builds>>

\* the head of VGG19: flatten, fc1, fc2, predictions, or the pooling asked for
VGGHeadLayers(c, include_top, pooling, classes) ==
    IF include_top
    THEN Dense(Dense(Dense(Flatten(c, "x", "x", "flatten"),
                           "x", "x", 4096, "relu", "fc1"),
                     "x", "x", 4096, "relu", "fc2"),
               "x", "x", classes, "softmax", "predictions")
    ELSE IF pooling = "avg"
         THEN EmitAuto(c, "x", GlobalPoolLayer(c.v.x, "GlobalAveragePooling1D"),
                       "global_average_pooling1d")
    ELSE IF pooling = "max"
         THEN EmitAuto(c, "x", GlobalPoolLayer(c.v.x, "GlobalMaxPooling1D"),
                       "global_max_pooling1d")
    ELSE c

VGGHead(b) ==
    /\ pc[b] = "vgghead"
    /\ Commit(b, VGGHeadLayers(Ctx(b), cfg[b].include_top, cfg[b].pooling, cfg[b].classes),
              "model")
    /\ UNCHANGED <<cfg, stage, glob, prev, builds>>

\* the layers of a model must have pairwise distinct names
UniqueNames(g) == Cardinality({g[i].name : i \in DOMAIN g}) = Len(g)

\* models.Model(inputs, x, name): no layer is created, the model refuses two
\* layers of one name; weights, if given, are loaded next
CreateModel(b) ==
    /\ pc[b] = "model"
    /\ IF UniqueNames(graph[b])
       THEN /\ pc' = [pc EXCEPT ![b] = IF cfg[b].weights = "None" THEN "done" ELSE "load"]
            /\ err' = err
       ELSE /\ pc' = [pc EXCEPT ![b] = "failed"]
            /\ err' = [err EXCEPT ![b] = "ValueError"]
    /\ UNCHANGED <<cfg, graph, calls, x, stage, glob, uid, prev, builds>>

\* model.load_weights(weights): the file exists; whether it fits is the file's
LoadWeights(b) ==
    /\ pc[b] = "load"
    /\ \E fits \in BOOLEAN :
         /\ pc' = [pc EXCEPT ![b] = IF fits THEN "done" ELSE "failed"]
         /\ err' = [err EXCEPT ![b] = IF fits THEN @ ELSE "LoadWeightsError"]
    /\ UNCHANGED <<cfg, graph, calls, x, stage, glob, uid, prev, builds>>

\* the caller builds the same configuration again in the same process
Rebuild(b) ==
    /\ pc[b] = "done"
    /\ builds[b] < MaxBuilds
    /\ builds' = [builds EXCEPT ![b] = @ + 1]
    /\ prev' = [prev EXCEPT ![b] = graph[b]]
    /\ graph' = [graph EXCEPT ![b] = <<>>]
    /\ calls' = [calls EXCEPT ![b] = <<>>]
    /\ x' = [x EXCEPT ![b] = Tensor(0, <<>>)]
    /\ stage' = [stage EXCEPT ![b] = 0]
    /\ pc' = [pc EXCEPT ![b] = "start"]
    /\ UNCHANGED <<cfg, err, glob, uid>>

(* --------------------------- specifications ---------------------------- *)

\* the callers in `active` each start one build with arguments from `configs`
InitWith(active, configs) ==
    /\ \E f \in [active -> configs] :
         cfg = [b \in Builders |-> IF b \in active THEN f[b] ELSE CHOOSE a \in configs : TRUE]
    /\ pc = [b \in Builders |-> IF b \in active THEN "start" ELSE "idle"]
    /\ graph = [b \in Builders |-> <<>>]
    /\ calls = [b \in Builders |-> <<>>]
    /\ x = [b \in Builders |-> Tensor(0, <<>>)]
    /\ stage = [b \in Builders |-> 0]
    /\ err = [b \in Builders |-> ""]
    /\ glob = NoFactory
    /\ uid = [f \in Factories |-> [p \in Prefixes |-> 0]]
    /\ prev = [b \in Builders |-> <<>>]
    /\ builds = [b \in Builders |-> IF b \in active THEN 1 ELSE 0]

Init == InitWith({1}, Configs)

InitConc == InitWith(Builders, ConcConfigs)

Next ==
    \/ \E b \in Builders : GetSubmodules(b)
    \/ \E b \in Builders : CheckWeights(b)
    \/ \E b \in Builders : ObtainInputShape(b)
    \/ \E b \in Builders : MakeInput(b)
    \/ \E b \in Builders : Stem(b)
    \/ \E b \in Builders : Stack(b)
    \/ \E b \in Builders : Top(b)
    \/ \E b \in Builders : VGGBody(b)
    \/ \E b \in Builders : VGGHead(b)
    \/ \E b \in Builders : CreateModel(b)
    \/ \E b \in Builders : LoadWeights(b)
    \/ \E b \in Builders : Rebuild(b)

\* one caller, one build at a time
Spec == Init /\ [][Next]_vars

\* two callers, each building once
NextConc ==
    \/ \E b \in Builders : GetSubmodules(b)
    \/ \E b \in Builders : CheckWeights(b)
    \/ \E b \in Builders : ObtainInputShape(b)
    \/ \E b \in Builders : MakeInput(b)
    \/ \E b \in Builders : Stem(b)
    \/ \E b \in Builders : Stack(b)
    \/ \E b \in Builders : Top(b)
    \/ \E b \in Builders : VGGBody(b)
    \/ \E b \in Builders : VGGHead(b)
    \/ \E b \in Builders : CreateModel(b)
    \/ \E b \in Builders : LoadWeights(b)

\* two callers building at the same time (two threads of one process), each
\* with its own factory
SpecConc == InitConc /\ [][NextConc]_vars

InitCustom == InitWith({1}, CustomConfigs)

\* ResNet called once with the caller's own stack_fn
NextCustom ==
    \/ \E b \in Builders : GetSubmodules(b)
    \/ \E b \in Builders : CheckWeights(b)
    \/ \E b \in Builders : ObtainInputShape(b)
    \/ \E b \in Builders : MakeInput(b)
    \/ \E b \in Builders : Stem(b)
    \/ \E b \in Builders : Stack(b)
    \/ \E b \in Builders : Top(b)
    \/ \E b \in Builders : CreateModel(b)
    \/ \E b \in Builders : LoadWeights(b)

\* one caller building a network of one stack of any variant and depth
SpecCustom == InitCustom /\ [][NextCustom]_vars

(* ------------------------------ properties ----------------------------- *)

\* the graph of b's build is complete
Built(b) == pc[b] \in {"model", "load", "done"}

IsResNet(b) == cfg[b].preset \in ResNetPresets

\* the summed depth of a preset's stage plan
RECURSIVE SumBlocks(_)
SumBlocks(fn) == IF fn = <<>> THEN 0 ELSE fn[1].blocks + SumBlocks(Tail(fn))

\* the block calls of the k-th stack of b's build
StackCalls(b, k) ==
    {i \in DOMAIN calls[b] : calls[b][i].stk = Plan(cfg[b])[k].name}

\* the block calls of the k-th stack of b's build that use a projection shortcut
Projections(b, k) == {i \in StackCalls(b, k) : calls[b][i].conv}

\* C1: a build whose `weights` is neither None nor an existing path creates no
\* graph node at all (no Input, no layer, no generated name is used up), whatever
\* the other arguments are, and ends with the weights error; ResNet and VGG19.
C1_WeightsFailBeforeGraph ==
    \A b \in Builders :
        (pc[b] # "idle" /\ cfg[b].weights = "missing") =>
            /\ graph[b] = <<>>
            /\ calls[b] = <<>>
            /\ \A p \in Prefixes : uid[Factory(b)][p] = 0
            /\ pc[b] \in {"start", "weights", "failed"}
            /\ pc[b] = "failed" => err[b] = "InvalidWeightsArgument"

\* C1 happens: a build with a missing weights path and an invalid input_shape
\* has failed on the weights
C1_Witness ==
    \E b \in Builders :
        /\ pc[b] = "failed" /\ err[b] = "InvalidWeightsArgument"
        /\ cfg[b].weights = "missing" /\ cfg[b].shape_len < MinSize
        /\ cfg[b].preset = "vgg19"

\* C2 as stated: in every finished stack exactly one block has a projection
\* shortcut, the first block of a Basic or Bottleneck stack and the last block of
\* a PreActBottleneck stack.
C2_ProjectionFirstOrLast ==
    \A b \in Builders :
        IsResNet(b) =>
            \A k \in 1..stage[b] :
                /\ Cardinality(Projections(b, k)) = 1
                /\ \A i \in Projections(b, k) :
                       calls[b][i].pos = IF StackFn(cfg[b].preset)[k].fn = 2
                                         THEN StackFn(cfg[b].preset)[k].blocks
                                         ELSE 1

\* C2 amended: a block has a projection shortcut exactly when it is the first
\* block of its stack, in all three variants, so that every finished stack has
\* exactly one block with a projection shortcut.
C2_ProjectionFirst ==
    \A b \in Builders :
        IsResNet(b) =>
            /\ \A i \in DOMAIN calls[b] : calls[b][i].conv <=> calls[b][i].pos = 1
            /\ \A k \in 1..stage[b] : Cardinality(Projections(b, k)) = 1

\* C2 happens: a pre-activation stack of several blocks is finished
C2_Witness ==
    \E b \in Builders :
        /\ cfg[b].preset = "resnet50v2" /\ stage[b] >= 1
        /\ Cardinality(StackCalls(b, 1)) = 3

\* C3: a finished build of a ResNet preset has made as many residual blocks as
\* the depths of its stage plan sum to, each block complete up to its addition
\* (16 for the 50-layer bottleneck preset).
C3_BlocksSumDepth ==
    \A b \in Builders :
        (IsResNet(b) /\ Built(b)) =>
            /\ Len(calls[b]) = SumBlocks(StackFn(cfg[b].preset))
            /\ \A i \in DOMAIN calls[b] : calls[b][i].added
            /\ cfg[b].preset = "resnet50" => Len(calls[b]) = 16

\* C3 happens: the 50-layer bottleneck preset is built, with 16 blocks
C3_Witness ==
    \E b \in Builders :
        pc[b] = "done" /\ cfg[b].preset = "resnet50" /\ Len(calls[b]) = 16

\* C4 as stated: the second build of a configuration with weights = None has the
\* same sequence of operations and the same layer name for every layer as the first.
C4_SameGraphTwice ==
    \A b \in Builders :
        (pc[b] = "done" /\ builds[b] >= 2 /\ cfg[b].weights = "None") =>
            /\ Len(graph[b]) = Len(prev[b])
            /\ \A i \in DOMAIN graph[b] :
                   /\ graph[b][i].op = prev[b][i].op
                   /\ graph[b][i].name = prev[b][i].name

\* the name suffixes a block layer may carry
Suffixes == {"0_conv", "0_bn", "1_conv", "1_bn", "1_relu", "2_conv", "2_bn", "2_relu",
             "3_conv", "3_bn", "add", "out", "preact_bn", "preact_relu"}

\* C5 as stated: every layer created inside a residual block is named
\* <stack name>_block<index>_<suffix> with one of the fixed suffixes, and none
\* has a generated name.
C5_BlockLayerNames ==
    \A b \in Builders :
        \A i \in DOMAIN graph[b] :
            graph[b][i].blk # 0 =>
                /\ ~graph[b][i].auto
                /\ calls[b][graph[b][i].blk].name =
                       calls[b][graph[b][i].blk].stk \o "_block"
                           \o ToString(calls[b][graph[b][i].blk].pos)
                /\ \E s \in Suffixes :
                       graph[b][i].name = calls[b][graph[b][i].blk].name \o "_" \o s

\* C6 as stated: in any interleaving of two builds, each given its own factory,
\* every layer of a build is created through that build's own factory.
C6_OwnFactory ==
    \A b \in Builders :
        \A i \in DOMAIN graph[b] : graph[b][i].fac = Factory(b)

\* C7: the tensor a finished block returns is the output of its `_out` layer and
\* has `filters` channels for a Basic block and 4 x `filters` channels for a
\* Bottleneck or PreActBottleneck block, with a projection shortcut or without.
C7_OutputChannels ==
    \A b \in Builders :
        \A i \in DOMAIN calls[b] :
            calls[b][i].added =>
                /\ calls[b][i].out.id \in DOMAIN graph[b]
                /\ graph[b][calls[b][i].out.id].name = calls[b][i].name \o "_out"
                /\ graph[b][calls[b][i].out.id].shape = calls[b][i].out.shape
                /\ calls[b][i].out.shape[2] = IF calls[b][i].fn = 0
                                              THEN calls[b][i].filters
                                              ELSE 4 * calls[b][i].filters

\* C7 happens: a build is finished that holds a Bottleneck block with a
\* projection shortcut and one without
C7_Witness ==
    \E b \in Builders :
        /\ pc[b] = "done"
        /\ \E i, j \in DOMAIN calls[b] :
               /\ calls[b][i].fn = 1 /\ calls[b][i].conv /\ calls[b][i].added
               /\ calls[b][j].fn = 1 /\ ~calls[b][j].conv /\ calls[b][j].added
               /\ calls[b][j].out.shape[2] = 4 * calls[b][j].filters

\* where the head of a finished ResNet graph starts: after the last block's
\* output, and after post_bn and post_relu in a pre-activation network
HeadStart(b) ==
    calls[b][Len(calls[b])].out.id + (IF Preact(cfg[b].preset) THEN 2 ELSE 0)

\* the layers of the head of a finished ResNet graph
HeadOf(b) == SubSeq(graph[b], HeadStart(b) + 1, Len(graph[b]))

\* C8: with include_top the head of ResNet is a global average pooling followed
\* by Dense(classes) with softmax, whatever `pooling` is; without include_top it
\* is a global average pooling for pooling = 'avg', a global max pooling for
\* pooling = 'max', and empty for any other value.
C8_HeadSelection ==
    \A b \in Builders :
        (IsResNet(b) /\ Built(b)) =>
            /\ cfg[b].include_top =>
                   /\ Len(HeadOf(b)) = 2
                   /\ HeadOf(b)[1].op = "GlobalAveragePooling1D"
                   /\ HeadOf(b)[2].op = "Dense"
                   /\ HeadOf(b)[2].shape = <<cfg[b].classes>>
                   /\ HeadOf(b)[2].act = "softmax"
                   /\ HeadOf(b)[2].ins = <<HeadStart(b) + 1>>
            /\ (~cfg[b].include_top /\ cfg[b].pooling = "avg") =>
                   /\ Len(HeadOf(b)) = 1
                   /\ HeadOf(b)[1].op = "GlobalAveragePooling1D"
            /\ (~cfg[b].include_top /\ cfg[b].pooling = "max") =>
                   /\ Len(HeadOf(b)) = 1
                   /\ HeadOf(b)[1].op = "GlobalMaxPooling1D"
            /\ (~cfg[b].include_top /\ cfg[b].pooling \notin {"avg", "max"}) =>
                   HeadOf(b) = <<>>
            /\ x[b].id = Len(graph[b])

\* C8 happens: a ResNet is built with include_top and pooling = 'max'
C8_Witness ==
    \E b \in Builders :
        /\ IsResNet(b) /\ pc[b] = "done"
        /\ cfg[b].include_top /\ cfg[b].pooling = "max"
        /\ Len(HeadOf(b)) = 2

\* the length of the running tensor after each stack of ResNet18 on length 64
C9_Lengths == [conv2 |-> 16, conv3 |-> 8, conv4 |-> 4, conv5 |-> 2]

\* C9: ResNet18 without top, pooling = 'avg', on an input of length 64 with 3
\* channels: the build is not stopped by a shape error, the length goes
\* 64 -> 32 (conv1_conv) -> 16 (pool1_pool) -> 16 -> 8 -> 4 -> 2 through the four
\* stacks, and the output has shape (512,).
C9_ResNet18Shape ==
    \A b \in Builders :
        (/\ cfg[b].preset = "resnet18" /\ ~cfg[b].include_top /\ cfg[b].pooling = "avg"
         /\ cfg[b].shape_len = 64 /\ cfg[b].tensor # "keras" /\ pc[b] # "idle") =>
            /\ pc[b] = "failed" => err[b] \in {"InvalidWeightsArgument", "LoadWeightsError"}
            /\ Built(b) =>
                   /\ graph[b][1].op = "Input" /\ graph[b][1].shape = <<64, 3>>
                   /\ graph[b][3].name = "conv1_conv" /\ graph[b][3].shape[1] = 32
                   /\ graph[b][7].name = "pool1_pool" /\ graph[b][7].shape[1] = 16
                   /\ Len(calls[b]) = 8
                   /\ \A i \in DOMAIN calls[b] :
                          /\ calls[b][i].out.shape[1] = C9_Lengths[calls[b][i].stk]
                          /\ calls[b][i].fn = 0
                   /\ calls[b][8].out.shape = <<2, 512>>
                   /\ x[b].shape = <<512>>

\* C9 happens: that ResNet18 is built and its output has shape (512,)
C9_Witness ==
    \E b \in Builders :
        /\ cfg[b].preset = "resnet18" /\ ~cfg[b].include_top /\ cfg[b].pooling = "avg"
        /\ cfg[b].shape_len = 64 /\ cfg[b].tensor = "none"
        /\ pc[b] = "done" /\ x[b].shape = <<512>>

\* the channel count a block's main path brings to its addition
OutChannels(blk) == IF blk.fn = 0 THEN blk.filters ELSE Expand(blk.filters)

\* C10 as stated: every block whose stride is greater than 1, or whose input
\* channel count differs from its output channel count, uses a projection shortcut.
C10_ProjectionWhenStrideOrChannels ==
    \A b \in Builders :
        \A i \in DOMAIN calls[b] :
            (calls[b][i].stride > 1 \/ calls[b][i].inp[2] # OutChannels(calls[b][i]))
                => calls[b][i].conv

\* C10 amended: every block whose input channel count differs from its output
\* channel count uses a projection shortcut, and so does every Basic or
\* Bottleneck block whose stride is greater than 1; a pre-activation block with a
\* stride greater than 1 and no projection takes its shortcut through
\* MaxPooling1D(1, strides = stride) of the block's input.
C10_ProjectionWhenChannels ==
    \A b \in Builders :
        \A i \in DOMAIN calls[b] :
            /\ calls[b][i].inp[2] # OutChannels(calls[b][i]) => calls[b][i].conv
            /\ (calls[b][i].fn \in {0, 1} /\ calls[b][i].stride > 1) => calls[b][i].conv
            /\ (calls[b][i].fn = 2 /\ calls[b][i].stride > 1 /\ ~calls[b][i].conv
                    /\ calls[b][i].added) =>
                   \E j \in DOMAIN graph[b] :
                       /\ graph[b][j].blk = i /\ graph[b][j].op = "MaxPooling1D"
                       /\ graph[b][j].k = 1 /\ graph[b][j].s = calls[b][i].stride
                       /\ graph[b][j].shape = calls[b][i].short

\* C10 happens: a build is finished in which a pre-activation block with stride 2
\* and no projection has been added
C10_Witness ==
    \E b \in Builders :
        /\ pc[b] = "done"
        /\ \E i \in DOMAIN calls[b] :
               /\ calls[b][i].fn = 2 /\ calls[b][i].stride > 1
               /\ ~calls[b][i].conv /\ calls[b][i].added

\* the block calls of the k-th stack of b's build that were given the stride `s`
Strided(b, k, s) == {i \in StackCalls(b, k) : calls[b][i].stride = s}

C12_ChannelsAgree ==
    \A b \in Builders :
        IsResNet(b) =>
            /\ \A i \in DOMAIN calls[b] :
                   /\ calls[b][i].short # <<>>
                   /\ calls[b][i].short[2] = calls[b][i].main[2]
                   /\ calls[b][i].main[2] = OutChannels(calls[b][i])
                   /\ calls[b][i].added <=>
                          MergeDim(calls[b][i].short[1], calls[b][i].main[1]) >= 0
            /\ calls[b] # <<>> => calls[b][1].inp[2] = 64

\* C12 happens: the 50-layer bottleneck preset is built; its first block took 64
\* channels in and added two branches of 256
C12_Witness ==
    \E b \in Builders :
        /\ pc[b] = "done" /\ cfg[b].preset = "resnet50"
        /\ calls[b][1].inp[2] = 64 /\ calls[b][1].short[2] = 256
        /\ calls[b][1].main[2] = 256 /\ calls[b][1].added

\* how many layers a block call creates
BlockSize(blk) ==
    CASE blk.fn = 0 -> 7 + (IF blk.conv THEN 2 ELSE 0)
      [] blk.fn = 1 -> 10 + (IF blk.conv THEN 2 ELSE 0)
      [] blk.fn = 2 -> 11 + (IF blk.conv \/ blk.stride > 1 THEN 1 ELSE 0)

\* the first layer of a finished block of b's build
BlockFirst(b, i) == calls[b][i].out.id - BlockSize(calls[b][i]) + 1

\* the layers of block i are those from BlockFirst(b, i) to the block's output
BlockSpan(b, i) ==
    /\ BlockFirst(b, i) > 1
    /\ graph[b][BlockFirst(b, i)].blk = i
    /\ graph[b][BlockFirst(b, i) - 1].blk # i
    /\ graph[b][calls[b][i].out.id].blk = i
    /\ calls[b][i].out.id < Len(graph[b]) => graph[b][calls[b][i].out.id + 1].blk # i

\* a Basic or Bottleneck block ends with the addition of the shortcut and the
\* last normalization of the main path, followed by a relu, which it returns
PostActivated(b, i) ==
    /\ graph[b][calls[b][i].out.id].op = "Activation"
    /\ graph[b][calls[b][i].out.id].act = "relu"
    /\ graph[b][calls[b][i].out.id].ins = <<calls[b][i].out.id - 1>>
    /\ graph[b][calls[b][i].out.id - 1].op = "Add"
    /\ graph[b][calls[b][i].out.id - 2].op = "BatchNormalization"
    /\ graph[b][calls[b][i].out.id - 1].ins =
           <<IF calls[b][i].conv THEN BlockFirst(b, i) + 1
             ELSE graph[b][BlockFirst(b, i)].ins[1],
             calls[b][i].out.id - 2>>
    /\ calls[b][i].conv => graph[b][BlockFirst(b, i) + 1].op = "BatchNormalization"

\* a PreActBottleneck block starts with a normalization and a relu of its input,
\* feeds that to the main path and to a projection shortcut, the raw input to an
\* identity or max pooling shortcut, and returns the addition
PreActivated(b, i) ==
    /\ graph[b][BlockFirst(b, i)].op = "BatchNormalization"
    /\ graph[b][BlockFirst(b, i) + 1].op = "Activation"
    /\ graph[b][BlockFirst(b, i) + 1].act = "relu"
    /\ graph[b][BlockFirst(b, i) + 1].ins = <<BlockFirst(b, i)>>
    /\ graph[b][calls[b][i].out.id - 8].op = "Conv1D"
    /\ graph[b][calls[b][i].out.id - 8].ins = <<BlockFirst(b, i) + 1>>
    /\ graph[b][calls[b][i].out.id].op = "Add"
    /\ graph[b][calls[b][i].out.id - 1].op = "Conv1D"
    /\ \A j \in (BlockFirst(b, i) + 2)..calls[b][i].out.id :
           graph[b][j].op = "Activation" => graph[b][j + 1].op \in {"ZeroPadding1D", "Conv1D"}
    /\ IF calls[b][i].conv
       THEN /\ graph[b][BlockFirst(b, i) + 2].op = "Conv1D"
            /\ graph[b][BlockFirst(b, i) + 2].ins = <<BlockFirst(b, i) + 1>>
            /\ graph[b][calls[b][i].out.id].ins =
                   <<BlockFirst(b, i) + 2, calls[b][i].out.id - 1>>
       ELSE IF calls[b][i].stride > 1
       THEN /\ graph[b][BlockFirst(b, i) + 2].op = "MaxPooling1D"
            /\ graph[b][BlockFirst(b, i) + 2].ins = graph[b][BlockFirst(b, i)].ins
            /\ graph[b][calls[b][i].out.id].ins =
                   <<BlockFirst(b, i) + 2, calls[b][i].out.id - 1>>
       ELSE graph[b][calls[b][i].out.id].ins =
                <<graph[b][BlockFirst(b, i)].ins[1], calls[b][i].out.id - 1>>

\* C13: every finished Basic and Bottleneck block returns relu(add(shortcut,
\* main)); every finished PreActBottleneck block starts with normalization and
\* relu of its input, feeds the result to its main path and to a projection
\* shortcut (the raw input to an identity or max pooling shortcut), and returns
\* the addition itself, with no activation after it.
C13_ActivationPlacement ==
    \A b \in Builders :
        \A i \in DOMAIN calls[b] :
            calls[b][i].added =>
                /\ BlockSpan(b, i)
                /\ calls[b][i].fn \in {0, 1} => PostActivated(b, i)
                /\ calls[b][i].fn = 2 => PreActivated(b, i)

\* C13 happens: a pre-activation network is built, with a projection block, a
\* block with an identity shortcut and a block with a max pooling shortcut
C13_Witness ==
    \E b \in Builders :
        /\ pc[b] = "done" /\ cfg[b].preset = "resnet50v2"
        /\ calls[b][1].conv /\ calls[b][1].added
        /\ ~calls[b][2].conv /\ calls[b][2].stride = 1 /\ calls[b][2].added
        /\ ~calls[b][3].conv /\ calls[b][3].stride = 2 /\ calls[b][3].added

\* C14 as stated: for every preset and every input length of at least 32, the
\* shortcut and the main path of every block reach the addition with the same
\* temporal length, and no build is stopped by a shape mismatch at an addition.
C14_LengthsAgree ==
    \A b \in Builders :
        (IsResNet(b) /\ cfg[b].shape_len >= MinSize) =>
            /\ err[b] # "ShapeMismatch"
            /\ \A i \in DOMAIN calls[b] :
                   calls[b][i].short # <<>> =>
                       calls[b][i].short[1] = calls[b][i].main[1]

\* C15 as stated: every finished stack of depth d >= 1, of any variant, has made
\* exactly d blocks, named <name>_block1 .. <name>_block<d>, pairwise distinct,
\* and no two layers of the build share a name.
C15_DepthBlocksDistinctNames ==
    \A b \in Builders :
        /\ \A k \in 1..stage[b] :
               /\ Cardinality(StackCalls(b, k)) = Plan(cfg[b])[k].blocks
               /\ {calls[b][i].name : i \in StackCalls(b, k)} =
                      {Plan(cfg[b])[k].name \o "_block" \o ToString(j) :
                           j \in 1..Plan(cfg[b])[k].blocks}
        /\ \A i, j \in DOMAIN calls[b] : i # j => calls[b][i].name # calls[b][j].name
        /\ UniqueNames(graph[b])

\* C16 as stated: in a build of a ResNet preset with kernel_initializer = K, every
\* convolution (the stem's and every block's, at every block index) is created
\* with the initializer K.
C16_InitializerEverywhere ==
    \A b \in Builders :
        IsResNet(b) =>
            \A i \in DOMAIN graph[b] :
                graph[b][i].op = "Conv1D" => graph[b][i].init = cfg[b].kinit

====
